---- MODULE Spec2Model ----
(***************************************************************************)
(* Event handling of two iced_aw widgets:                                  *)
(*   - TimePickerOverlay (src/native/overlay/time_picker.rs): the focus    *)
(*     cycle, the keyboard / clock / digital-clock / button handlers and   *)
(*     the submit message;                                                 *)
(*   - CupertinoButton (src/native/cupertino/cupertino_button.rs): layout  *)
(*     delegation, draw and the press hit test.                            *)
(* Four specifications share the variables: Spec (the overlay), FocusSpec  *)
(* (Focus::next / Focus::previous applied to arbitrary inputs),            *)
(* KeyboardSpec (on_event_keyboard called on its own) and ButtonSpec (the  *)
(* button).  A specification holds the variables of the others at their    *)
(* idle values.                                                            *)
(* The canvas cache of the clock (State::clock_cache) is only ever cleared *)
(* by the handlers and is left out; clock_cache_needs_clearance is kept.   *)
(***************************************************************************)
EXTENDS Integers, Sequences, FiniteSets, TLC

VARIABLES
    \* overlay::State (time_picker.rs 858-867)
    time,                         \* NaiveTime as seconds since midnight
    clock_cache_needs_clearance,
    use_24h,
    show_seconds,
    clock_dragged,
    focus,
    keyboard_modifiers,           \* [shift |-> BOOLEAN]
    \* button::State of the two inner buttons (time_picker.rs 69-74)
    cancel_button,                \* [is_pressed |-> BOOLEAN]
    submit_button,
    \* the host's cursor and the outputs of the last TimePickerOverlay::on_event
    cursor_position,
    messages,
    fake_messages,
    status,
    adjustments,                  \* number of +/- Duration steps applied so far
    \* KeyboardSpec: the event last handed to on_event_keyboard, <<>> or <<e>>
    keyboard_event,
    \* FocusSpec: the focus a run started from and the operations applied
    start,
    ops,
    trail,
    \* CupertinoButton (cupertino_button.rs 42-50) and its last calls
    on_pressed,                   \* Option<Message>: <<>> or <<m>>
    is_filled,
    colour,                       \* Option<Color>: <<>> or <<c>>
    body,                         \* the inner element
    bounds,                       \* layout.bounds() handed to draw / on_event
    call,                         \* the last call made on the button
    shell,                        \* messages published so far
    result                        \* what the last call returned / rendered

overlay_vars == <<time, clock_cache_needs_clearance, use_24h, show_seconds,
                  clock_dragged, focus, keyboard_modifiers, cancel_button,
                  submit_button, cursor_position, messages, fake_messages,
                  status, adjustments, keyboard_event>>
focus_vars == <<start, ops, trail>>
button_vars == <<on_pressed, is_filled, colour, body, bounds, call, shell, result>>
vars == <<overlay_vars, focus_vars, button_vars>>

----------------------------------------------------------------------------
(* Bounds of the model *)

\* at most this many +/- Duration steps (arrow keys, arrow clicks) in a run
MaxAdjust == 1
\* at most this many Focus::next / Focus::previous applications in a FocusSpec run
MaxOps == 7
\* at most this many messages published by the button in a ButtonSpec run
MaxShell == 2

\* the time State::default starts from (Local::now()): 11:33:33
InitTimes == {41613}
\* angles of the cursor around the clock centre, in sixtieths of a turn
\* clockwise from 12 o'clock
CursorAngles == {33}

----------------------------------------------------------------------------
(* Focus (time_picker.rs 900-969) *)

Focus == {"None", "Overlay", "DigitalHour", "DigitalMinute", "DigitalSecond",
          "Cancel", "Submit"}

\* next with the DigitalMinute arm sending focus past Cancel
next_skips_cancel(f, ss) ==
    CASE f = "None" -> "Overlay"
      [] f = "Overlay" -> "DigitalHour"
      [] f = "DigitalHour" -> "DigitalMinute"
      [] f = "DigitalMinute" -> IF ss THEN "DigitalSecond" ELSE "Submit"
      [] f = "DigitalSecond" -> "Cancel"
      [] f = "Cancel" -> "Submit"
      [] f = "Submit" -> "Overlay"

next(f, ss) ==
    CASE f = "None" -> "Overlay"
      [] f = "Overlay" -> "DigitalHour"
      [] f = "DigitalHour" -> "DigitalMinute"
      [] f = "DigitalMinute" -> IF ss THEN "DigitalSecond" ELSE "Cancel"
      [] f = "DigitalSecond" -> "Cancel"
      [] f = "Cancel" -> "Submit"
      [] f = "Submit" -> "Overlay"

\* previous with the Cancel arm not testing show_seconds
previous_ignores_show_seconds(f, ss) ==
    CASE f = "None" -> "None"
      [] f = "Overlay" -> "Submit"
      [] f = "DigitalHour" -> "Overlay"
      [] f = "DigitalMinute" -> "DigitalHour"
      [] f = "DigitalSecond" -> "DigitalMinute"
      [] f = "Cancel" -> "DigitalSecond"
      [] f = "Submit" -> "Cancel"

previous(f, ss) ==
    CASE f = "None" -> "None"
      [] f = "Overlay" -> "Submit"
      [] f = "DigitalHour" -> "Overlay"
      [] f = "DigitalMinute" -> "DigitalHour"
      [] f = "DigitalSecond" -> "DigitalMinute"
      [] f = "Cancel" -> IF ss THEN "DigitalSecond" ELSE "DigitalMinute"
      [] f = "Submit" -> "Cancel"

DefaultFocus == "None"

----------------------------------------------------------------------------
(* chrono::NaiveTime, as the overlay uses it (nanoseconds play no part) *)

hour(t) == t \div 3600
minute(t) == (t \div 60) % 60
second(t) == t % 60

\* NaiveTime::hour12: (is_pm, hour in 1..12)
hour12(t) ==
    [pm |-> hour(t) >= 12,
     hour |-> IF hour(t) % 12 = 0 THEN 12 ELSE hour(t) % 12]

with_hour(t, h) == h * 3600 + (t % 3600)
with_minute(t, m) == hour(t) * 3600 + m * 60 + second(t)
with_second(t, s) == (t \div 60) * 60 + s

\* `*time += duration` / `*time -= duration` (duration in seconds, negative
\* for -=): NaiveTime wraps around midnight
add_duration(s, d) ==
    [s EXCEPT !.time = (s.time + d + 86400) % 86400,
              !.adjustments = @ + 1]

----------------------------------------------------------------------------
(* Events, statuses and the cursor as the overlay's handlers see it *)

KeyCodes == {"Tab", "Left", "Right", "Up", "Down", "Enter"}

KeyboardEvents ==
    {[type |-> "KeyPressed", key_code |-> k] : k \in KeyCodes}
    \cup {[type |-> "KeyReleased", key_code |-> k] : k \in {"Tab", "Up"}}
    \cup {[type |-> "ModifiersChanged", modifiers |-> [shift |-> b]] : b \in BOOLEAN}

MouseButtonEvents ==
    {[type |-> t, button |-> b] : t \in {"ButtonPressed", "ButtonReleased"},
                                  b \in {"Left", "Right"}}

TouchEvents ==
    {[type |-> t] : t \in {"FingerPressed", "FingerMoved", "FingerLifted", "FingerLost"}}

IsPress(e) ==
    \/ e.type = "ButtonPressed" /\ e.button = "Left"
    \/ e.type = "FingerPressed"

IsLift(e) ==
    \/ e.type = "ButtonReleased" /\ e.button = "Left"
    \/ e.type = "FingerLifted"

IsRelease(e) == IsLift(e) \/ e.type = "FingerLost"

\* event::Status::merge
merge(a, b) == IF a = "Captured" \/ b = "Captured" THEN "Captured" ELSE "Ignored"

\* The cursor is kept by the layout node that contains it (the four children
\* of the overlay node and the columns / arrows of the digital clock are laid
\* out side by side, time_picker.rs 611-663) and, inside the clock, by what
\* core::clock computes from it: the ring nearest to it and its angle.
NearestRadius(ss) ==
    IF ss THEN {"Period", "Hour", "Minute", "Second"}
          ELSE {"Period", "Hour", "Minute"}

DigitalRegions(ss) ==
    {"hour_up", "hour_text", "hour_down",
     "minute_up", "minute_text", "minute_down"}
    \cup (IF ss THEN {"second_up", "second_text", "second_down"} ELSE {})

Nowhere == [region |-> "outside", ring |-> "None", angle |-> 0]

CursorPositions(ss) ==
    {[region |-> "clock", ring |-> r, angle |-> a] :
        r \in NearestRadius(ss), a \in CursorAngles}
    \cup {[region |-> r, ring |-> "None", angle |-> 0] :
        r \in DigitalRegions(ss) \cup {"cancel", "submit", "outside"}}

\* crate::core::clock::nearest_radius over the radii of time_picker.rs 144-161
nearest_radius(cur) == cur.ring

\* crate::core::clock::nearest_point(circle_points(_, center, amount), cursor):
\* the index, counted clockwise from 12 o'clock, of the point nearest in angle
nearest_point(amount, cur) == ((2 * cur.angle * amount + 60) \div 120) % amount

In(cur, prefix) ==
    cur.region \in {prefix \o "_up", prefix \o "_text", prefix \o "_down"}

----------------------------------------------------------------------------
(* TimePickerOverlay::on_event_clock (time_picker.rs 102-261) *)

toggle_period(s) ==
    LET h12 == hour12(s.time)
        h == IF h12.hour = 12 THEN (IF h12.pm THEN 12 ELSE 0) ELSE h12.hour
    IN  [s EXCEPT !.time =
            with_hour(s.time, (IF h12.pm /\ h # 12 THEN h ELSE h + 12) % 24)]

clock_clicked(s, e, cur) ==
    IF IsPress(e) THEN
        CASE nearest_radius(cur) = "Period" ->
                [state |-> toggle_period(s), status |-> "Captured"]
          [] nearest_radius(cur) = "Hour" ->
                [state |-> [s EXCEPT !.focus = "DigitalHour",
                                     !.clock_dragged = "Hour"],
                 status |-> "Captured"]
          [] nearest_radius(cur) = "Minute" ->
                [state |-> [s EXCEPT !.focus = "DigitalMinute",
                                     !.clock_dragged = "Minute"],
                 status |-> "Captured"]
          [] nearest_radius(cur) = "Second" ->
                [state |-> [s EXCEPT !.focus = "DigitalSecond",
                                     !.clock_dragged = "Second"],
                 status |-> "Captured"]
          [] OTHER -> [state |-> s, status |-> "Ignored"]
    ELSE IF IsRelease(e) THEN
        [state |-> [s EXCEPT !.clock_dragged = "None"], status |-> "Captured"]
    ELSE [state |-> s, status |-> "Ignored"]

clock_dragged_update(s, cur) ==
    CASE s.clock_dragged = "Hour" ->
            [state |-> [s EXCEPT !.time =
                with_hour(s.time, (nearest_point(12, cur)
                                   + (IF hour12(s.time).pm THEN 12 ELSE 0)) % 24)],
             status |-> "Captured"]
      [] s.clock_dragged = "Minute" ->
            [state |-> [s EXCEPT !.time = with_minute(s.time, nearest_point(60, cur))],
             status |-> "Captured"]
      [] s.clock_dragged = "Second" ->
            [state |-> [s EXCEPT !.time = with_second(s.time, nearest_point(60, cur))],
             status |-> "Captured"]
      [] OTHER -> [state |-> s, status |-> "Ignored"]

\* on_event_clock with the drag update computed before the click is handled
on_event_clock_drag_first(s, e, cur) ==
    LET inside == cur.region = "clock"
        s0 == [s EXCEPT !.clock_cache_needs_clearance = inside]
    IN  IF inside THEN
            LET dragged == clock_dragged_update(s0, cur)
                clicked == clock_clicked(dragged.state, e, cur)
            IN  [state |-> clicked.state,
                 status |-> merge(clicked.status, dragged.status)]
        ELSE IF IsRelease(e) THEN
            [state |-> [s0 EXCEPT !.clock_dragged = "None"], status |-> "Captured"]
        ELSE [state |-> s0, status |-> "Ignored"]

on_event_clock(s, e, cur) ==
    LET inside == cur.region = "clock"
        s0 == IF inside THEN [s EXCEPT !.clock_cache_needs_clearance = TRUE]
              ELSE IF s.clock_cache_needs_clearance
                   THEN [s EXCEPT !.clock_cache_needs_clearance = FALSE]
                   ELSE s
    IN  IF inside THEN
            LET clicked == clock_clicked(s0, e, cur)
                dragged == clock_dragged_update(clicked.state, cur)
            IN  [state |-> dragged.state,
                 status |-> merge(clicked.status, dragged.status)]
        ELSE IF IsRelease(e) THEN
            [state |-> [s0 EXCEPT !.clock_dragged = "None"], status |-> "Captured"]
        ELSE [state |-> s0, status |-> "Ignored"]

----------------------------------------------------------------------------
(* TimePickerOverlay::on_event_digital_clock (time_picker.rs 264-389) *)

calculate_time(s, cur, prefix, duration) ==
    LET up == IF cur.region = prefix \o "_up"
              THEN [state |-> add_duration(s, duration), status |-> "Captured"]
              ELSE [state |-> s, status |-> "Ignored"]
    IN  IF cur.region = prefix \o "_down"
        THEN [state |-> add_duration(up.state, 0 - duration), status |-> "Captured"]
        ELSE up

digital_column(s, e, cur, prefix, f, duration) ==
    IF IsPress(e) /\ In(cur, prefix)
    THEN calculate_time([s EXCEPT !.focus = f], cur, prefix, duration)
    ELSE [state |-> s, status |-> "Ignored"]

on_event_digital_clock(s, e, cur) ==
    LET h == digital_column(s, e, cur, "hour", "DigitalHour", 3600)
        m == digital_column(h.state, e, cur, "minute", "DigitalMinute", 60)
        \* `status` is overwritten by the minute column when the cursor is in it
        hm_status == IF IsPress(e) /\ In(cur, "minute") THEN m.status ELSE h.status
        sec == IF s.show_seconds
               THEN digital_column(m.state, e, cur, "second", "DigitalSecond", 1)
               ELSE [state |-> m.state, status |-> "Ignored"]
    IN  [state |-> sec.state, status |-> merge(hm_status, sec.status)]

----------------------------------------------------------------------------
(* TimePickerOverlay::on_event_keyboard (time_picker.rs 391-461) *)

keyboard_handle(s, key_code, duration) ==
    IF key_code \in {"Left", "Down"}
    THEN [state |-> add_duration(s, 0 - duration), status |-> "Captured"]
    ELSE IF key_code \in {"Right", "Up"}
    THEN [state |-> add_duration(s, duration), status |-> "Captured"]
    ELSE [state |-> s, status |-> "Ignored"]

\* on_event_keyboard with ModifiersChanged recorded before the focus is looked at
on_event_keyboard_modifiers_first(s, e) ==
    IF e.type = "ModifiersChanged" THEN
        [state |-> [s EXCEPT !.keyboard_modifiers = e.modifiers],
         status |-> "Ignored"]
    ELSE IF s.focus = "None" THEN [state |-> s, status |-> "Ignored"]
    ELSE IF e.type = "KeyPressed" THEN
        IF e.key_code = "Tab" THEN
            [state |-> [s EXCEPT !.focus =
                            IF s.keyboard_modifiers.shift
                            THEN previous(s.focus, s.show_seconds)
                            ELSE next(s.focus, s.show_seconds)],
             status |-> "Ignored"]
        ELSE
            CASE s.focus = "DigitalHour" -> keyboard_handle(s, e.key_code, 3600)
              [] s.focus = "DigitalMinute" -> keyboard_handle(s, e.key_code, 60)
              [] s.focus = "DigitalSecond" -> keyboard_handle(s, e.key_code, 1)
              [] OTHER -> [state |-> s, status |-> "Ignored"]
    ELSE [state |-> s, status |-> "Ignored"]

on_event_keyboard(s, e) ==
    IF s.focus = "None" THEN [state |-> s, status |-> "Ignored"]
    ELSE IF e.type = "KeyPressed" THEN
        IF e.key_code = "Tab" THEN
            [state |-> [s EXCEPT !.focus =
                            IF s.keyboard_modifiers.shift
                            THEN previous(s.focus, s.show_seconds)
                            ELSE next(s.focus, s.show_seconds)],
             status |-> "Ignored"]
        ELSE
            CASE s.focus = "DigitalHour" -> keyboard_handle(s, e.key_code, 3600)
              [] s.focus = "DigitalMinute" -> keyboard_handle(s, e.key_code, 60)
              [] s.focus = "DigitalSecond" -> keyboard_handle(s, e.key_code, 1)
              [] OTHER -> [state |-> s, status |-> "Ignored"]
    ELSE IF e.type = "ModifiersChanged" THEN
        [state |-> [s EXCEPT !.keyboard_modifiers = e.modifiers],
         status |-> "Ignored"]
    ELSE [state |-> s, status |-> "Ignored"]

----------------------------------------------------------------------------
(* The inner buttons (time_picker.rs 76-88) and TimePickerOverlay::on_event *)
(* (time_picker.rs 689-789)                                                 *)

\* Button::on_event of the host toolkit, for a button whose on_press is set:
\* a press inside arms it, the lift after that fires it when still inside.
inner_button_on_event(b, e, inside, on_press) ==
    IF IsPress(e) /\ inside THEN
        [state |-> [b EXCEPT !.is_pressed = TRUE], pushed |-> <<>>,
         status |-> "Captured"]
    ELSE IF IsLift(e) /\ b.is_pressed THEN
        [state |-> [b EXCEPT !.is_pressed = FALSE],
         pushed |-> IF inside THEN <<on_press>> ELSE <<>>,
         status |-> "Captured"]
    ELSE IF e.type = "FingerLost" THEN
        [state |-> [b EXCEPT !.is_pressed = FALSE], pushed |-> <<>>,
         status |-> "Ignored"]
    ELSE [state |-> b, pushed |-> <<>>, status |-> "Ignored"]

\* the message both inner buttons are built with
on_cancel == [msg |-> "on_cancel"]

\* the application's on_submit closure
on_submit(t) == [msg |-> "on_submit", time |-> t]

\* submit_time taking the 12-hour hour as hour % 12 (0 at noon and midnight)
submit_time_hour_mod_12(s) ==
    LET hp == IF s.use_24h
              THEN [hour |-> hour(s.time), period |-> "H24"]
              ELSE [hour |-> hour(s.time) % 12,
                    period |-> IF hour12(s.time).pm THEN "Pm" ELSE "Am"]
    IN  IF s.show_seconds
        THEN [variant |-> "Hms", hour |-> hp.hour, minute |-> minute(s.time),
              second |-> second(s.time), period |-> hp.period]
        ELSE [variant |-> "Hm", hour |-> hp.hour, minute |-> minute(s.time),
              period |-> hp.period]

\* the Time handed to on_submit (time_picker.rs 760-780)
submit_time(s) ==
    LET hp == IF s.use_24h
              THEN [hour |-> hour(s.time), period |-> "H24"]
              ELSE [hour |-> hour12(s.time).hour,
                    period |-> IF hour12(s.time).pm THEN "Pm" ELSE "Am"]
    IN  IF s.show_seconds
        THEN [variant |-> "Hms", hour |-> hp.hour, minute |-> minute(s.time),
              second |-> second(s.time), period |-> hp.period]
        ELSE [variant |-> "Hm", hour |-> hp.hour, minute |-> minute(s.time),
              period |-> hp.period]

\* submit_push with the submit button writing into `messages` itself
submit_push_keeps_fake(s, fake) ==
    IF fake # <<>> THEN fake \o <<on_submit(submit_time(s))>> ELSE <<>>

\* what the overlay pushes once the submit button has run
submit_push(s, fake) ==
    IF fake # <<>> THEN <<on_submit(submit_time(s))>> ELSE <<>>

on_event(s, cb, sb, e, cur) ==
    LET k == on_event_keyboard(s, e)
    IN  IF k.status = "Captured" THEN
            [state |-> k.state, cancel |-> cb, submit |-> sb,
             messages |-> <<>>, fake_messages |-> <<>>, status |-> "Captured"]
        ELSE
            LET c == on_event_clock(k.state, e, cur)
                d == on_event_digital_clock(c.state, e, cur)
                cancel == inner_button_on_event(cb, e, cur.region = "cancel", on_cancel)
                submit == inner_button_on_event(sb, e, cur.region = "submit", on_cancel)
            IN  [state |-> d.state,
                 cancel |-> cancel.state,
                 submit |-> submit.state,
                 messages |-> cancel.pushed \o submit_push(d.state, submit.pushed),
                 fake_messages |-> submit.pushed,
                 status |-> merge(merge(merge(c.status, d.status), cancel.status),
                                  submit.status)]

----------------------------------------------------------------------------
(* The overlay as a state machine: the host delivers one event at a time *)

State ==
    [time |-> time,
     clock_cache_needs_clearance |-> clock_cache_needs_clearance,
     use_24h |-> use_24h,
     show_seconds |-> show_seconds,
     clock_dragged |-> clock_dragged,
     focus |-> focus,
     keyboard_modifiers |-> keyboard_modifiers,
     adjustments |-> adjustments]

FocusIdle == start = "None" /\ ops = <<>> /\ trail = <<>>

ButtonIdle ==
    /\ on_pressed = <<>>
    /\ is_filled = FALSE
    /\ colour = <<>>
    /\ body = <<>>
    /\ bounds = <<>>
    /\ call = <<>>
    /\ shell = <<>>
    /\ result = <<>>

\* what State::default (time_picker.rs 869-882) fixes, fresh button states
\* and no event delivered yet
OverlayFresh ==
    /\ clock_cache_needs_clearance = FALSE
    /\ clock_dragged = "None"
    /\ keyboard_modifiers = [shift |-> FALSE]
    /\ cancel_button = [is_pressed |-> FALSE]
    /\ submit_button = [is_pressed |-> FALSE]
    /\ cursor_position = Nowhere
    /\ messages = <<>>
    /\ fake_messages = <<>>
    /\ status = "Ignored"
    /\ adjustments = 0
    /\ keyboard_event = <<>>

\* State::default with use_24h / show_seconds as the TimePicker was built
OverlayDefault ==
    /\ OverlayFresh
    /\ time \in InitTimes
    /\ use_24h \in BOOLEAN
    /\ show_seconds \in BOOLEAN
    /\ focus = DefaultFocus

Init == OverlayDefault /\ FocusIdle /\ ButtonIdle

\* the host calls on_event with the event and the cursor position it tracks
Dispatch(e, cur) ==
    \E r \in {on_event(State, cancel_button, submit_button, e, cur)} :
        /\ r.state.adjustments <= MaxAdjust
        /\ time' = r.state.time
        /\ clock_cache_needs_clearance' = r.state.clock_cache_needs_clearance
        /\ use_24h' = r.state.use_24h
        /\ show_seconds' = r.state.show_seconds
        /\ clock_dragged' = r.state.clock_dragged
        /\ focus' = r.state.focus
        /\ keyboard_modifiers' = r.state.keyboard_modifiers
        /\ adjustments' = r.state.adjustments
        /\ cancel_button' = r.cancel
        /\ submit_button' = r.submit
        /\ messages' = r.messages
        /\ fake_messages' = r.fake_messages
        /\ status' = r.status
        /\ cursor_position' = cur
        /\ UNCHANGED <<keyboard_event, focus_vars, button_vars>>

KeyboardEvent == \E e \in KeyboardEvents : Dispatch(e, cursor_position)

MouseButtonEvent == \E e \in MouseButtonEvents : Dispatch(e, cursor_position)

CursorMovedEvent ==
    \E p \in CursorPositions(show_seconds) : Dispatch([type |-> "CursorMoved"], p)

TouchEvent == \E e \in TouchEvents : Dispatch(e, cursor_position)

Next == KeyboardEvent \/ MouseButtonEvent \/ CursorMovedEvent \/ TouchEvent

Spec == Init /\ [][Next]_vars

----------------------------------------------------------------------------
(* Focus::next and Focus::previous applied to any focus (they are public): *)
(* a run starts from any focus and show_seconds and applies either, as Tab *)
(* and Shift+Tab do (time_picker.rs 409-415)                               *)

FocusInit ==
    /\ OverlayFresh
    /\ time \in InitTimes
    /\ use_24h = FALSE
    /\ show_seconds \in BOOLEAN
    /\ focus \in Focus
    /\ start = focus
    /\ ops = <<>>
    /\ trail = <<>>
    /\ ButtonIdle

Apply(op, f) ==
    /\ Len(ops) < MaxOps
    /\ focus' = f
    /\ ops' = Append(ops, op)
    /\ trail' = Append(trail, f)
    /\ UNCHANGED <<time, clock_cache_needs_clearance, use_24h, show_seconds,
                   clock_dragged, keyboard_modifiers, cancel_button,
                   submit_button, cursor_position, messages, fake_messages,
                   status, adjustments, keyboard_event, start, button_vars>>

ApplyNext == Apply("next", next(focus, show_seconds))

ApplyPrevious == Apply("previous", previous(focus, show_seconds))

FocusNext == ApplyNext \/ ApplyPrevious

FocusSpec == FocusInit /\ [][FocusNext]_vars

----------------------------------------------------------------------------
(* TimePickerOverlay::on_event_keyboard called on its own, from any focus   *)
(* the overlay can have: DigitalSecond needs show_seconds, as no press and  *)
(* no Tab leads to it otherwise                                             *)

KeyboardInit ==
    /\ OverlayFresh
    /\ time \in InitTimes
    /\ use_24h \in BOOLEAN
    /\ show_seconds \in BOOLEAN
    /\ focus \in Focus \ (IF show_seconds THEN {} ELSE {"DigitalSecond"})
    /\ FocusIdle
    /\ ButtonIdle

HandleKeyboard(e) ==
    \E r \in {on_event_keyboard(State, e)} :
        /\ r.state.adjustments <= MaxAdjust
        /\ time' = r.state.time
        /\ clock_cache_needs_clearance' = r.state.clock_cache_needs_clearance
        /\ use_24h' = r.state.use_24h
        /\ show_seconds' = r.state.show_seconds
        /\ clock_dragged' = r.state.clock_dragged
        /\ focus' = r.state.focus
        /\ keyboard_modifiers' = r.state.keyboard_modifiers
        /\ adjustments' = r.state.adjustments
        /\ status' = r.status
        /\ keyboard_event' = <<e>>
        /\ UNCHANGED <<cancel_button, submit_button, cursor_position, messages,
                       fake_messages, focus_vars, button_vars>>

KeyboardNext == \E e \in KeyboardEvents : HandleKeyboard(e)

KeyboardSpec == KeyboardInit /\ [][KeyboardNext]_vars

----------------------------------------------------------------------------
(* Properties of the focus cycle, checked under FocusSpec *)

\* the tab order for a given show_seconds
CycleOrder(ss) ==
    IF ss THEN <<"Overlay", "DigitalHour", "DigitalMinute", "DigitalSecond",
                 "Cancel", "Submit">>
          ELSE <<"Overlay", "DigitalHour", "DigitalMinute", "Cancel", "Submit">>

Range(seq) == {seq[i] : i \in 1..Len(seq)}

InCycle(f, ss) == f \in Range(CycleOrder(ss))

\* the element that follows f in the tab order, wrapping around
Successor(f, ss) ==
    LET order == CycleOrder(ss)
        i == CHOOSE j \in 1..Len(order) : order[j] = f
    IN  order[(i % Len(order)) + 1]

\* the focus the i-th operation of the run was applied to
Before(i) == IF i = 1 THEN start ELSE trail[i - 1]

OnlyNext == \A i \in 1..Len(ops) : ops[i] = "next"

NextNeverNone == \A i \in 1..Len(ops) : ops[i] = "next" => trail[i] # "None"

FollowsOrder ==
    \A i \in 1..Len(ops) :
        InCycle(Before(i), show_seconds)
            => trail[i] = Successor(Before(i), show_seconds)

ClosesCycle ==
    Len(ops) = Len(CycleOrder(show_seconds))
        => focus = start /\ Range(trail) = Range(CycleOrder(show_seconds))

\* C1 as stated: from any focus other than None, applying next repeatedly
\* follows the tab order, visits every element of the cycle and is back at
\* the start after one round; next never returns None.
C1_NextCyclesFromAnyFocus ==
    /\ NextNeverNone
    /\ (start # "None" /\ OnlyNext) => (FollowsOrder /\ ClosesCycle)

\* C1 amended: the same, from any focus that belongs to the cycle for the
\* run's show_seconds (not None, and not DigitalSecond when show_seconds is
\* false); next never returns None, whatever it is applied to.
C1_NextCyclesFromCycleFocus ==
    /\ NextNeverNone
    /\ (InCycle(start, show_seconds) /\ OnlyNext) => (FollowsOrder /\ ClosesCycle)

\* a full round of next from DigitalSecond with seconds shown is back there
C1_Witness ==
    /\ show_seconds
    /\ start = "DigitalSecond"
    /\ OnlyNext
    /\ Len(ops) = 6
    /\ focus = "DigitalSecond"

\* C2: on the tab cycle previous undoes next and next undoes previous:
\* whenever one is applied right after the other to a focus of the cycle,
\* the focus is back where it was.
C2_PreviousInvertsNext ==
    \A i \in 1..(Len(ops) - 1) :
        (InCycle(Before(i), show_seconds) /\ ops[i] # ops[i + 1])
            => trail[i + 1] = Before(i)

\* next then previous across the DigitalMinute / Cancel edge without seconds
C2_Witness ==
    /\ ~show_seconds
    /\ start = "DigitalMinute"
    /\ ops = <<"next", "previous">>
    /\ trail = <<"Cancel", "DigitalMinute">>

----------------------------------------------------------------------------
(* Properties of the overlay, checked under Spec *)

SubmitFired == fake_messages # <<>>

\* C3: when the submit button fires, the overlay's output for that event is
\* exactly one message, on_submit of the selected time, and the placeholder
\* the button produced (a copy of on_cancel) is not in the output; when it
\* does not fire, no on_submit message is in the output.
C3_SubmitPushesOnlyOnSubmit ==
    /\ SubmitFired =>
        /\ fake_messages = <<on_cancel>>
        /\ messages = <<on_submit(submit_time(State))>>
        /\ on_cancel \notin Range(messages)
    /\ ~SubmitFired => \A i \in 1..Len(messages) : messages[i].msg # "on_submit"

\* the submit button has fired and the output is the one on_submit message
C3_Witness ==
    /\ SubmitFired
    /\ Len(messages) = 1
    /\ messages[1].msg = "on_submit"
    /\ cursor_position.region = "submit"

\* C4: the Time in the submit message is Hms with the state's minute and
\* second when show_seconds, Hm with the state's minute otherwise; with
\* use_24h its period is H24 and its hour the 24-hour hour; without, its hour
\* is in 1..12, its period is Pm exactly when the 24-hour hour is >= 12, and
\* (hour mod 12) + (12 if Pm) is the 24-hour hour.
C4_SubmitTimeReflectsState ==
    SubmitFired =>
        LET t == messages[1].time
            h24 == time \div 3600
        IN  /\ t.variant = (IF show_seconds THEN "Hms" ELSE "Hm")
            /\ t.minute = (time \div 60) % 60
            /\ show_seconds => t.second = time % 60
            /\ DOMAIN t = (IF show_seconds
                           THEN {"variant", "hour", "minute", "second", "period"}
                           ELSE {"variant", "hour", "minute", "period"})
            /\ use_24h => (t.period = "H24" /\ t.hour = h24 /\ t.hour \in 0..23)
            /\ ~use_24h =>
                /\ t.hour \in 1..12
                /\ t.period \in {"Am", "Pm"}
                /\ (t.period = "Pm") <=> (h24 >= 12)
                /\ (t.hour % 12) + (IF t.period = "Pm" THEN 12 ELSE 0) = h24

\* a submit at noon on a 12-hour picker with seconds: 12 Pm
C4_Witness ==
    /\ SubmitFired
    /\ ~use_24h
    /\ show_seconds
    /\ time \div 3600 = 12
    /\ messages[1].time.hour = 12
    /\ messages[1].time.period = "Pm"

\* what a press inside the clock must leave behind for the ring nearest to
\* the cursor
ClockPressed(ring, f, dragged, field, point) ==
    nearest_radius(cursor_position) = ring
        => /\ focus' = f
           /\ clock_dragged' = dragged
           /\ field = point

\* C5: a left-button or finger press with the cursor inside the clock and
\* nearest to the hour (minute, second) ring sets focus to DigitalHour
\* (DigitalMinute, DigitalSecond) and clock_dragged to Hour (Minute, Second),
\* and the same event leaves the hour (minute, second) of the time at the
\* clock point nearest to the cursor.
C5_ClockPressFocusesAndSets ==
    [][\A e \in MouseButtonEvents \cup TouchEvents :
        (/\ IsPress(e)
         /\ cursor_position.region = "clock"
         /\ Dispatch(e, cursor_position))
        => /\ ClockPressed("Hour", "DigitalHour", "Hour",
                           (time' \div 3600) % 12, nearest_point(12, cursor_position))
           /\ ClockPressed("Minute", "DigitalMinute", "Minute",
                           (time' \div 60) % 60, nearest_point(60, cursor_position))
           /\ ClockPressed("Second", "DigitalSecond", "Second",
                           time' % 60, nearest_point(60, cursor_position))]_vars

\* a drag on the second ring has brought the second back from 34 to the
\* clock point under the cursor
C5_Witness ==
    /\ cursor_position.region = "clock"
    /\ nearest_radius(cursor_position) = "Second"
    /\ focus = "DigitalSecond"
    /\ clock_dragged = "Second"
    /\ adjustments = 1
    /\ time % 60 = nearest_point(60, cursor_position)
    /\ status = "Captured"

\* the keyboard events on_event_keyboard never captures, whatever the focus
UncapturedKeyboard(e) ==
    \/ e.type = "ModifiersChanged"
    \/ e.type = "KeyPressed" /\ e.key_code \notin {"Left", "Right", "Up", "Down"}

\* C11: a keyboard event the keyboard handler does not capture (a Tab press,
\* a ModifiersChanged, a key other than the four arrows) leaves the selected
\* time unchanged in every reachable state, a clock drag in progress after
\* an arrow-key change of the time included.
C11_UncapturedKeyboardKeepsTime ==
    [][\A e \in KeyboardEvents :
        (UncapturedKeyboard(e) /\ Dispatch(e, cursor_position))
        => time' = time]_vars

\* the state the claim singles out: the hour ring is being dragged, the
\* cursor is still on the clock, and an arrow key has moved the hour away
\* from the clock point under the cursor
C11_Witness ==
    /\ clock_dragged = "Hour"
    /\ cursor_position.region = "clock"
    /\ adjustments = 1
    /\ focus = "DigitalHour"
    /\ (time \div 3600) % 12 # nearest_point(12, cursor_position)

\* C12: while focus is None the keyboard handler ignores every keyboard
\* event: it returns Ignored and changes neither the focus, nor the time,
\* nor the stored keyboard modifiers.
C12_FocusNoneIgnoresKeyboard ==
    [][\A e \in KeyboardEvents :
        (focus = "None" /\ HandleKeyboard(e))
        => /\ status' = "Ignored"
           /\ focus' = "None"
           /\ time' = time
           /\ keyboard_modifiers' = keyboard_modifiers]_vars

\* a ModifiersChanged with shift held was handled with focus None and the
\* stored modifiers still say shift is up
C12_Witness ==
    /\ focus = "None"
    /\ keyboard_event = <<[type |-> "ModifiersChanged", modifiers |-> [shift |-> TRUE]]>>
    /\ keyboard_modifiers = [shift |-> FALSE]
    /\ status = "Ignored"

----------------------------------------------------------------------------
(* CupertinoButton (cupertino_button.rs).  Coordinates are whole numbers.   *)

VERTICAL_PADDING == 14

\* the built widget: CupertinoButton::new() is default(), then the builders
Messages == {"Pressed"}
Colours == {"red"}
Lengths == {"Shrink", "Fill"}

\* the body element: its Length hints and the size of its content
Bodies ==
    {[width |-> "Shrink", height |-> "Shrink", content |-> [width |-> 8, height |-> 12]],
     [width |-> "Fill", height |-> "Shrink", content |-> [width |-> 30, height |-> 24]]}

\* layout limits the parent hands down, and where it then puts the node
LimitsSet == {[max_width |-> 100, max_height |-> 100],
              [max_width |-> 20, max_height |-> 16]}
Origins == {[x |-> 0 - 10, y |-> 5], [x |-> 3, y |-> 20]}

Min(a, b) == IF a < b THEN a ELSE b

\* self.body.as_widget().layout(renderer, limits): the content, within limits
body_layout(b, limits) ==
    [width |-> Min(b.content.width, limits.max_width),
     height |-> Min(b.content.height, limits.max_height)]

\* Widget::width / height / layout (cupertino_button.rs 125-134)
width == body.width
height == body.height

\* layout with the vertical padding added to the body's node
layout_padded(limits) ==
    [body_layout(body, limits) EXCEPT !.height = @ + VERTICAL_PADDING]

layout(limits) == body_layout(body, limits)

system_blue == "system_blue"
secondary_system_fill == "secondary_system_fill"

\* the text colour draw hands to the body (cupertino_button.rs 182-192),
\* with the filled and disabled arm falling through to the last one
text_color_disabled_first ==
    IF colour # <<>> THEN colour[1]
    ELSE IF is_filled /\ on_pressed # <<>> THEN "WHITE"
    ELSE IF ~is_filled /\ on_pressed # <<>> THEN system_blue
    ELSE secondary_system_fill

text_color ==
    IF colour # <<>> THEN colour[1]
    ELSE IF is_filled /\ on_pressed # <<>> THEN "WHITE"
    ELSE IF ~is_filled /\ on_pressed # <<>> THEN system_blue
    ELSE IF is_filled /\ on_pressed = <<>> THEN "WHITE"
    ELSE secondary_system_fill

\* the background quad (cupertino_button.rs 146-176)
fill_quad ==
    [op |-> "fill_quad",
     bounds |-> [x |-> bounds.x,
                 y |-> (bounds.y + bounds.height \div 2) - 3 * VERTICAL_PADDING,
                 width |-> bounds.width,
                 height |-> bounds.height + VERTICAL_PADDING],
     border_radius |-> 16,
     border_width |-> 5,
     border_color |-> "TRANSPARENT",
     background |-> IF on_pressed = <<>> THEN secondary_system_fill
                    ELSE system_blue]

draw_body == [op |-> "draw_body", layout |-> bounds, text_color |-> text_color]

\* draw painting the quad whether or not the button is filled
draw_always_filled == <<fill_quad, draw_body>>

\* Widget::draw (cupertino_button.rs 136-197): the render calls, in order
draw == (IF is_filled THEN <<fill_quad>> ELSE <<>>) \o <<draw_body>>

\* cursor.position().unwrap_or_default() (cupertino_button.rs 216)
cur_pos(cursor) == IF cursor = <<>> THEN [x |-> 0, y |-> 0] ELSE cursor[1]

\* the hit test with the right and bottom edges included
hit_inclusive(pos) ==
    /\ bounds.x + 10 <= pos.x /\ pos.x <= bounds.x + bounds.width
    /\ bounds.y - 14 <= pos.y /\ pos.y <= bounds.y + bounds.height - 10

\* hit_x && hit_y (cupertino_button.rs 217-223): half-open ranges
hit(pos) ==
    /\ bounds.x + 10 <= pos.x /\ pos.x < bounds.x + bounds.width
    /\ bounds.y - 14 <= pos.y /\ pos.y < bounds.y + bounds.height - 10

IsButtonPress(e) ==
    \/ e.type = "ButtonPressed" /\ e.button = "Left"
    \/ e.type = "FingerPressed"

\* on_event capturing a press that hits even when on_pressed is None
cupertino_on_event_captures_disabled(e, cursor) ==
    IF IsButtonPress(e) /\ hit(cur_pos(cursor))
    THEN [status |-> "Captured", published |-> on_pressed]
    ELSE [status |-> "Ignored", published |-> <<>>]

\* on_event falling back to the finger's position when the cursor has none
cupertino_on_event_finger_position(e, cursor) ==
    LET pos == IF cursor = <<>> /\ e.type = "FingerPressed"
               THEN e.position ELSE cur_pos(cursor)
    IN  IF IsButtonPress(e) /\ on_pressed # <<>> /\ hit(pos)
        THEN [status |-> "Captured", published |-> <<on_pressed[1]>>]
        ELSE [status |-> "Ignored", published |-> <<>>]

\* Widget::on_event (cupertino_button.rs 199-238): the status returned and
\* what is published to the shell
cupertino_on_event(e, cursor) ==
    IF IsButtonPress(e) /\ on_pressed # <<>> /\ hit(cur_pos(cursor))
    THEN [status |-> "Captured", published |-> <<on_pressed[1]>>]
    ELSE [status |-> "Ignored", published |-> <<>>]

----------------------------------------------------------------------------
(* The button as a state machine: the host lays it out, draws it and hands *)
(* it events with the cursor it tracks                                     *)

Origin == [x |-> 0, y |-> 0]

\* cursor positions on and next to every edge of the hit rectangle
CursorPoints ==
    {[x |-> x, y |-> bounds.y - 14] :
        x \in {bounds.x + 9, bounds.x + 10,
               bounds.x + bounds.width - 1, bounds.x + bounds.width}}
    \cup {[x |-> bounds.x + 10, y |-> y] :
        y \in {bounds.y - 15, bounds.y - 14,
               bounds.y + bounds.height - 11, bounds.y + bounds.height - 10}}
    \cup {Origin}

Cursors == {<<>>} \cup {<<p>> : p \in CursorPoints}

ButtonEvents ==
    {[type |-> "ButtonPressed", button |-> "Left"],
     [type |-> "ButtonPressed", button |-> "Right"],
     [type |-> "ButtonReleased", button |-> "Left"],
     [type |-> "CursorMoved"],
     [type |-> "FingerLifted"]}
    \cup {[type |-> "FingerPressed", position |-> p] :
            p \in {Origin, [x |-> bounds.x + 10, y |-> bounds.y - 14]}}

OverlayIdle ==
    /\ OverlayFresh
    /\ time \in InitTimes
    /\ use_24h = FALSE
    /\ show_seconds = FALSE
    /\ focus = DefaultFocus

ButtonInit ==
    /\ on_pressed \in {<<>>} \cup {<<m>> : m \in Messages}
    /\ is_filled \in BOOLEAN
    /\ colour \in {<<>>} \cup {<<c>> : c \in Colours}
    /\ body \in Bodies
    /\ bounds = <<>>
    /\ call = <<>>
    /\ shell = <<>>
    /\ result = <<>>
    /\ OverlayIdle
    /\ FocusIdle

ButtonFrame ==
    UNCHANGED <<on_pressed, is_filled, colour, body, overlay_vars, focus_vars>>

Width ==
    /\ call' = [op |-> "width"]
    /\ result' = width
    /\ UNCHANGED <<bounds, shell>>
    /\ ButtonFrame

Height ==
    /\ call' = [op |-> "height"]
    /\ result' = height
    /\ UNCHANGED <<bounds, shell>>
    /\ ButtonFrame

Layout ==
    \E limits \in LimitsSet, at \in Origins :
        /\ call' = [op |-> "layout", limits |-> limits]
        /\ result' = layout(limits)
        /\ bounds' = [x |-> at.x, y |-> at.y,
                      width |-> layout(limits).width,
                      height |-> layout(limits).height]
        /\ UNCHANGED shell
        /\ ButtonFrame

Draw ==
    /\ bounds # <<>>
    /\ call' = [op |-> "draw"]
    /\ result' = draw
    /\ UNCHANGED <<bounds, shell>>
    /\ ButtonFrame

OnEvent ==
    /\ bounds # <<>>
    /\ \E e \in ButtonEvents, cursor \in Cursors :
        \E r \in {cupertino_on_event(e, cursor)} :
            /\ Len(shell) + Len(r.published) <= MaxShell
            /\ call' = [op |-> "on_event", event |-> e, cursor |-> cursor]
            /\ result' = r
            /\ shell' = shell \o r.published
            /\ UNCHANGED bounds
            /\ ButtonFrame

ButtonNext == Width \/ Height \/ Layout \/ Draw \/ OnEvent

ButtonSpec == ButtonInit /\ [][ButtonNext]_vars

----------------------------------------------------------------------------
(* Properties of CupertinoButton, checked under ButtonSpec *)

Drawn == call # <<>> /\ call.op = "draw"

Handled == call # <<>> /\ call.op = "on_event"

Enabled == on_pressed # <<>>

BodyDraws == {i \in 1..Len(result) : result[i].op = "draw_body"}

QuadDraws == {i \in 1..Len(result) : result[i].op = "fill_quad"}

\* C6: the body is drawn with the override colour when there is one,
\* whatever is_filled and on_pressed are; without an override, white when
\* filled, system blue when not filled and enabled, the secondary system
\* fill colour when not filled and disabled.
C6_TextColour ==
    Drawn =>
        \A i \in BodyDraws :
            result[i].text_color =
                IF colour # <<>> THEN colour[1]
                ELSE IF is_filled THEN "WHITE"
                ELSE IF Enabled THEN "system_blue"
                ELSE "secondary_system_fill"

\* a filled, disabled button without override has drawn its body in white
C6_Witness ==
    /\ Drawn
    /\ colour = <<>>
    /\ is_filled
    /\ ~Enabled
    /\ result[Len(result)].op = "draw_body"
    /\ result[Len(result)].text_color = "WHITE"

\* C7: width, height and layout return what the body returns for the same
\* arguments; draw draws the body exactly once, and paints a background quad
\* before it if and only if is_filled, in system blue when enabled and in the
\* secondary system fill colour when disabled.
C7_DelegatesAndOverlaysFill ==
    /\ (call # <<>> /\ call.op = "width") => result = body.width
    /\ (call # <<>> /\ call.op = "height") => result = body.height
    /\ (call # <<>> /\ call.op = "layout") =>
            /\ result = body_layout(body, call.limits)
            /\ bounds.width = result.width
            /\ bounds.height = result.height
    /\ Drawn =>
            /\ Cardinality(BodyDraws) = 1
            /\ result[Len(result)].op = "draw_body"
            /\ result[Len(result)].layout = bounds
            /\ Cardinality(QuadDraws) = (IF is_filled THEN 1 ELSE 0)
            /\ Len(result) = Cardinality(BodyDraws) + Cardinality(QuadDraws)
            /\ \A i \in QuadDraws :
                    result[i].background =
                        IF Enabled THEN "system_blue" ELSE "secondary_system_fill"

\* a filled, disabled button has painted the secondary fill, then its body
C7_Witness ==
    /\ Drawn
    /\ is_filled
    /\ ~Enabled
    /\ Len(result) = 2
    /\ result[1].op = "fill_quad"
    /\ result[1].background = "secondary_system_fill"
    /\ result[2].op = "draw_body"

\* the position the hit test is made against
TestedPosition == IF call.cursor = <<>> THEN Origin ELSE call.cursor[1]

InHitRectangle(pos) ==
    /\ bounds.x + 10 <= pos.x
    /\ pos.x < bounds.x + bounds.width
    /\ bounds.y - 14 <= pos.y
    /\ pos.y < bounds.y + bounds.height - 10

PressEvent ==
    \/ call.event.type = "ButtonPressed" /\ call.event.button = "Left"
    \/ call.event.type = "FingerPressed"

\* C8: on_event publishes on_pressed exactly once and returns Captured if
\* and only if the event is a left-button or finger press, on_pressed is
\* set, and the cursor position is inside
\* [x + 10, x + width) x [y - 14, y + height - 10); otherwise it publishes
\* nothing and returns Ignored.  The press alone publishes.
C8_PressInsidePublishesOnce ==
    Handled =>
        IF PressEvent /\ Enabled /\ InHitRectangle(TestedPosition)
        THEN result = [status |-> "Captured", published |-> <<on_pressed[1]>>]
        ELSE result = [status |-> "Ignored", published |-> <<>>]

\* the first event the button sees is a press on the last column inside the
\* hit rectangle, and its message is out
C8_Witness ==
    /\ Handled
    /\ call.event = [type |-> "ButtonPressed", button |-> "Left"]
    /\ call.cursor = <<[x |-> bounds.x + bounds.width - 1, y |-> bounds.y - 14]>>
    /\ result.status = "Captured"
    /\ shell = <<"Pressed">>

\* C9: a disabled button (on_pressed is None) never publishes and returns
\* Ignored for every event and cursor, over any sequence of events.
C9_DisabledNeverPublishes ==
    ~Enabled =>
        /\ shell = <<>>
        /\ Handled => result = [status |-> "Ignored", published |-> <<>>]

\* a disabled button has been pressed inside its hit rectangle
C9_Witness ==
    /\ ~Enabled
    /\ Handled
    /\ PressEvent
    /\ call.cursor # <<>>
    /\ InHitRectangle(call.cursor[1])
    /\ result.status = "Ignored"

\* C10: a press that arrives while the cursor has no position is tested
\* against (0, 0): it publishes exactly when the button is enabled and the
\* origin is inside the hit rectangle, wherever the finger is.
C10_NoCursorTestsOrigin ==
    (Handled /\ PressEvent /\ call.cursor = <<>>) =>
        /\ (result.published # <<>>) <=> (Enabled /\ InHitRectangle(Origin))
        /\ (result.status = "Captured") <=> (Enabled /\ InHitRectangle(Origin))

\* a finger pressed inside the hit rectangle of an enabled button, with no
\* cursor and the origin outside the rectangle: nothing is published
C10_Witness ==
    /\ Handled
    /\ Enabled
    /\ call.cursor = <<>>
    /\ call.event.type = "FingerPressed"
    /\ InHitRectangle(call.event.position)
    /\ ~InHitRectangle(Origin)
    /\ result.published = <<>>

====
